---- MODULE Spec2Model ----
(***************************************************************************)
(* Model of the two HTTP roles of pat-app:                                 *)
(*   - the Attester (src/commands/attester.go): handleAttestationRequest   *)
(*     and its per-client quota map clientState;                           *)
(*   - the Origin (src/commands/origin.go): CreateChallenge, handleRequest *)
(*     and the per-context challenge queues.                               *)
(* Each role is modelled twice: with whole handlers as atomic actions      *)
(* (requests served one after the other) and with handlers split at every  *)
(* access to the shared map (requests served by concurrent goroutines, as  *)
(* net/http does).                                                         *)
(***************************************************************************)
EXTENDS Integers, Sequences, FiniteSets, TLC

\* ------------------------------------------------------------------ bounds
MaxReq == 3        \* requests handled by the Attester in one behaviour
MaxLimit == 2      \* largest value of the sec-token-limit response header
MaxIssued == 3     \* challenges issued by the Origin in one behaviour
NumProcs == 3      \* goroutines serving requests at the same time
MaxQuotaReq == 6   \* verified rate-limited requests of one client in one behaviour
MaxRounds == 2     \* challenge requests served for one and the same request shape

\* ------------------------------------------------------- program constants
StatusOK == 200
StatusBadRequest == 400
StatusTooManyRequests == 429
StatusUnauthorized == 401
StatusInternalServerError == 500
BasicPublicTokenType == 2
RateLimitedTokenType == 3
challengeNonceLength == 32

\* ------------------------------------------------------------ input domains
\* sec-client-id values; an empty header is replaced by "default"
ClientIDs == {"default", "c1"}
\* hex.EncodeToString output: the anonymous origin id (request header) and the
\* index (FinalizeIndex) are both hex strings and key the same maps
AnonOriginEncs == {"aa", "bb"}
IndexEncs == {"bb", "cc"}
TokenLimits == 1..MaxLimit

\* The checks of the rate-limited path, in the order the handler makes them.
\* A request is described by the first check it fails ("none": it fails none).
RateLimitedChecks ==
    << "unmarshal", "hdrOrigin", "hdrClientKey", "hdrRequestBlind",
       "signature", "forward", "limitMissing", "limitInvalid",
       "readResponse", "hdrOriginEcho", "finalizeIndex", "none" >>

RECURSIVE PosIn(_, _, _)
PosIn(s, x, k) == IF k > Len(s) THEN 0 ELSE IF s[k] = x THEN k ELSE PosIn(s, x, k + 1)

CheckPos(f) == PosIn(RateLimitedChecks, f, 1)
RateLimitedFaults == { RateLimitedChecks[k] : k \in 1..Len(RateLimitedChecks) }

\* the forward placed before the signature is verified
ReachedForwardMut(f) == CheckPos(f) >= CheckPos("signature")

\* a.client.Do(tokenReq) is reached iff every check before it passed
ReachedForward(f) == CheckPos(f) >= CheckPos("forward")

VARIABLES
    clientState,   \* TestAttester.clientState: client id -> ClientState (a reference)
    heap,          \* the ClientState objects: reference -> [originIndices, originCounts]
    nextObj,       \* next fresh reference
    nReq,          \* history: requests handled so far
    nForwards,     \* history: calls of a.client.Do so far
    onlyBasic,     \* history: every request handled so far was a Basic request
    hist,          \* history: per (client, origin), the requests that reached the quota update
    last           \* history: the last request handled and its response

attVars == << clientState, heap, nextObj, nReq, nForwards, onlyBasic, hist, last >>

VARIABLES
    challenges,    \* Origin.challenges: context -> queue of outstanding challenges
    issued,        \* history: context of every challenge issued; its position is the serial
    consumed,      \* history: serials of the challenges taken by redemptions, in order
    lastO          \* history: the last request the Origin handled and its response

oriVars == << challenges, issued, consumed, lastO >>

VARIABLES
    att,           \* Attester goroutines: position in the handler and its local variables
    ori,           \* Origin goroutines: position in the handler and its local variables
    crashed        \* the Go runtime stopped the process on a concurrent map access

conVars == << att, ori, crashed >>

VARIABLES
    creq,          \* the headers and query of the challenge requests a client repeats
    nChal          \* history: challenge requests of that shape served so far

chVars == << creq, nChal >>
vars == << attVars, oriVars, conVars, chVars >>

\* ------------------------------------------------------------ map helpers
Has(m, k) == k \in DOMAIN m
Get0(m, k) == IF k \in DOMAIN m THEN m[k] ELSE 0      \* Go's zero value for a missing int
Put(m, k, v) == [ x \in (DOMAIN m) \cup {k} |-> IF x = k THEN v ELSE m[x] ]
Remove(m, k) == [ x \in (DOMAIN m) \ {k} |-> m[x] ]
EmptyMap == << >>

\* the ClientState of client c, or the empty state when c is unknown
StateOf(cs, hp, c) ==
    IF Has(cs, c) THEN hp[cs[c]] ELSE [originIndices |-> EmptyMap, originCounts |-> EmptyMap]

\* ------------------------------------------------ Attester: quota update
\* `err` at line 259 is the error of pat.FinalizeIndex (line 223); the handler
\* has already returned at line 227 when it is not nil
errAtIndexCheck == "nil"

\* lines 258-263: the mismatch branch returns 400 only inside `if err != nil`
IndexMismatchRejected(err) == err # "nil"

\* line 266: the key under which the count of a known pair is incremented
CountKey(anonOriginEnc, indexEnc) == indexEnc

\* lines 237-244: the state of a client seen for the first time
NewClientState(anonOriginEnc, indexEnc) ==
    [ originIndices |-> Put(EmptyMap, anonOriginEnc, indexEnc),
      originCounts  |-> Put(EmptyMap, anonOriginEnc, 1) ]

\* a first contact with an origin that starts the count at 0
RecordOriginMut(st, anonOriginEnc, indexEnc) ==
    [ originIndices |-> Put(st.originIndices, anonOriginEnc, indexEnc),
      originCounts  |-> Put(st.originCounts, anonOriginEnc, 0) ]

\* lines 252-253: first request for an origin of a known client
RecordOrigin(st, anonOriginEnc, indexEnc) ==
    [ originIndices |-> Put(st.originIndices, anonOriginEnc, indexEnc),
      originCounts  |-> Put(st.originCounts, anonOriginEnc, 1) ]

\* line 266: state.originCounts[key] = state.originCounts[key] + 1
IncrementCount(st, key) ==
    [ st EXCEPT !.originCounts = Put(st.originCounts, key, Get0(st.originCounts, key) + 1) ]

\* a mismatching request rebinds the pair to the index it derived
AfterIndexMismatchMut(st, anonOriginEnc, indexEnc) ==
    [ st EXCEPT !.originIndices = Put(st.originIndices, anonOriginEnc, indexEnc) ]

\* lines 258-264: the client's state after a request for a known pair derived
\* another index; neither branch of line 259 writes to it
AfterIndexMismatch(st, anonOriginEnc, indexEnc) == st

\* line 268
LimitExceeded(count, tokenLimit) == count >= tokenLimit

\* lines 231-278: the quota update, as [cs, hp, nx, status, wrote]
UpdateClientState(cs, hp, nx, clientID, anonOriginEnc, indexEnc, tokenLimit) ==
    IF ~Has(cs, clientID)
    THEN [ cs |-> Put(cs, clientID, nx),
           hp |-> Put(hp, nx, NewClientState(anonOriginEnc, indexEnc)),
           nx |-> nx + 1, status |-> StatusOK, wrote |-> TRUE ]
    ELSE LET id == cs[clientID]
             st == hp[id]
         IN  IF ~Has(st.originIndices, anonOriginEnc)
             THEN [ cs |-> cs,
                    hp |-> Put(hp, id, RecordOrigin(st, anonOriginEnc, indexEnc)),
                    nx |-> nx, status |-> StatusOK, wrote |-> TRUE ]
             ELSE IF st.originIndices[anonOriginEnc] # indexEnc
             THEN LET st1 == AfterIndexMismatch(st, anonOriginEnc, indexEnc)
                  IN  IF IndexMismatchRejected(errAtIndexCheck)
                      THEN [ cs |-> cs, hp |-> Put(hp, id, st1), nx |-> nx,
                             status |-> StatusBadRequest, wrote |-> FALSE ]
                      ELSE [ cs |-> cs, hp |-> Put(hp, id, st1), nx |-> nx,
                             status |-> StatusOK, wrote |-> TRUE ]
             ELSE LET key == CountKey(anonOriginEnc, indexEnc)
                      st2 == IncrementCount(st, key)
                  IN  IF LimitExceeded(st2.originCounts[key], tokenLimit)
                      THEN [ cs |-> cs, hp |-> Put(hp, id, st2), nx |-> nx,
                             status |-> StatusTooManyRequests, wrote |-> FALSE ]
                      ELSE [ cs |-> cs, hp |-> Put(hp, id, st2), nx |-> nx,
                             status |-> StatusOK, wrote |-> TRUE ]

\* ------------------------------------------------ Attester: the handler
NoPair == [clientID |-> "", anonOriginEnc |-> "", indexEnc |-> "", tokenLimit |-> 0]

Response(kind, fault, pair, status, forwards, wrote) ==
    [ kind |-> kind, fault |-> fault, clientID |-> pair.clientID,
      anonOriginEnc |-> pair.anonOriginEnc, indexEnc |-> pair.indexEnc,
      tokenLimit |-> pair.tokenLimit, status |-> status,
      forwards |-> forwards, wrote |-> wrote ]

\* the quota update placed before the checks of the Issuer's response
ReachedQuotaMut(f) == CheckPos(f) >= CheckPos("limitMissing")

\* the quota update of lines 231-275 is reached iff no check failed
ReachedQuota(f) == f = "none"

\* a failed forward is tried once more
ForwardAttemptsMut(f) == IF f = "forward" THEN 2 ELSE 1

\* lines 187 and 282: the calls of a.client.Do made by a request that reaches
\* the forward, whose outcome is fault f; neither call is inside a loop
ForwardAttempts(f) == 1

\* lines 62-104: rejections before the token type is read
SanityFaults == {"method", "contentType", "issuer", "readBody", "composeURL", "newRequest"}

RejectMalformed ==
    /\ nReq < MaxReq
    /\ \E f \in SanityFaults :
          last' = Response("malformed", f, NoPair, StatusBadRequest, 0, FALSE)
    /\ nReq' = nReq + 1
    /\ onlyBasic' = FALSE
    /\ UNCHANGED << clientState, heap, nextObj, nForwards, hist >>

\* a Basic request that also records the default client
HandleBasicMut ==
    /\ nReq < MaxReq
    /\ \E f \in {"forward", "readResponse", "none"} :
          /\ last' = Response("basic", f, NoPair,
                              IF f = "none" THEN StatusOK ELSE StatusBadRequest,
                              ForwardAttempts(f), f = "none")
          /\ nForwards' = nForwards + ForwardAttempts(f)
    /\ nReq' = nReq + 1
    /\ UNCHANGED onlyBasic
    /\ LET u == UpdateClientState(clientState, heap, nextObj, "default", "aa", "bb", 1)
       IN  clientState' = u.cs /\ heap' = u.hp /\ nextObj' = u.nx
    /\ UNCHANGED hist

\* lines 279-302: Basic token type; `fault` is "forward" (a.client.Do fails),
\* "readResponse" (reading the response body fails) or "none"
HandleBasic ==
    /\ nReq < MaxReq
    /\ \E f \in {"forward", "readResponse", "none"} :
          /\ last' = Response("basic", f, NoPair,
                              IF f = "none" THEN StatusOK ELSE StatusBadRequest,
                              ForwardAttempts(f), f = "none")
          /\ nForwards' = nForwards + ForwardAttempts(f)
    /\ nReq' = nReq + 1
    /\ UNCHANGED onlyBasic
    /\ UNCHANGED << clientState, heap, nextObj, hist >>

\* lines 108 and 279: a tag that is neither RateLimited nor Basic falls through
\* both branches; nothing is written, so net/http answers 200 with no body
HandleOtherType ==
    /\ nReq < MaxReq
    /\ last' = Response("other", "none", NoPair, StatusOK, 0, FALSE)
    /\ nReq' = nReq + 1
    /\ onlyBasic' = FALSE
    /\ UNCHANGED << clientState, heap, nextObj, nForwards, hist >>

\* line 107: binary.BigEndian.Uint16 panics on a body shorter than two bytes;
\* net/http recovers the panic and the client gets no response
HandleShortBody ==
    /\ nReq < MaxReq
    /\ last' = Response("panic", "shortBody", NoPair, 0, 0, FALSE)
    /\ nReq' = nReq + 1
    /\ onlyBasic' = FALSE
    /\ UNCHANGED << clientState, heap, nextObj, nForwards, hist >>

\* lines 231-278: the quota update and the response of a rate-limited
\* request of client c for origin o that derived index i under limit L; f is
\* the outcome of the checks before it and fw its number of forwards
QuotaUpdate(f, fw, c, o, i, L) ==
    LET pair == [clientID |-> c, anonOriginEnc |-> o,
                 indexEnc |-> i, tokenLimit |-> L]
        u == UpdateClientState(clientState, heap, nextObj, c, o, i, L)
        status == IF f = "none" THEN u.status ELSE StatusBadRequest
    IN  /\ clientState' = u.cs
        /\ heap' = u.hp
        /\ nextObj' = u.nx
        /\ hist' = [hist EXCEPT ![<<c, o>>] =
                      Append(@, [indexEnc |-> i, tokenLimit |-> L,
                                 status |-> status])]
        /\ last' = Response("ratelimited", f, pair, status, fw,
                            f = "none" /\ u.wrote)

\* lines 108-278: RateLimited token type
HandleRateLimited ==
    /\ nReq < MaxReq
    /\ \E f \in RateLimitedFaults :
          LET fw == IF ReachedForward(f) THEN ForwardAttempts(f) ELSE 0
          IN  /\ nForwards' = nForwards + fw
              /\ IF ReachedQuota(f)
                 THEN \E c \in ClientIDs, o \in AnonOriginEncs,
                         i \in IndexEncs, L \in TokenLimits :
                        QuotaUpdate(f, fw, c, o, i, L)
                 ELSE /\ UNCHANGED << clientState, heap, nextObj, hist >>
                      /\ last' = Response("ratelimited", f, NoPair, StatusBadRequest, fw, FALSE)
    /\ nReq' = nReq + 1
    /\ onlyBasic' = FALSE

handleAttestationRequest ==
    \/ RejectMalformed
    \/ HandleBasic
    \/ HandleOtherType
    \/ HandleShortBody
    \/ HandleRateLimited

\* lines 325-328: startAttester
AttesterInit ==
    /\ clientState = EmptyMap
    /\ heap = EmptyMap
    /\ nextObj = 1
    /\ nReq = 0
    /\ nForwards = 0
    /\ onlyBasic = TRUE
    /\ hist = [ p \in ClientIDs \X AnonOriginEncs |-> << >> ]
    /\ last = Response("none", "none", NoPair, 0, 0, FALSE)

\* ------------------------------------------------ Origin: configuration
\* lines 311-322: the fields of Origin set by startOrigin
issuerName == "issuer.example"
originName == "origin.example"
additionalOriginInfo == << "extra.example" >>
rateLimitedTokenKeyEnc == "rateLimitedKey"
basicTokenKeyEnc == "basicKey"

\* ------------------------------------------------ Origin: inputs
\* values of a header or query parameter that only has to be present
FlagValues == {"", "1"}
\* values of Sec-CH-Token-Type and of the `type` query parameter
TypeValues == {"", "2", "3", "x"}
\* values of Sec-Token-Attribute-Count
CountValues == {"", "x", "-1", "0", "1", "2", "9", "10"}
\* a byte slice is kept as its length and a name for its content
EmptyBytes == [len |-> 0, content |-> "empty"]
\* line 63-64: make([]byte, challengeNonceLength) filled by rand.Reader.Read
RandomContents == {"r1"}
NonceValues == { [len |-> challengeNonceLength, content |-> b] : b \in RandomContents }

AllOriginRequests ==
    [ hdrNonInteractive : FlagValues, qNonInteractive : FlagValues,
      hdrCrossOrigin : FlagValues, qCrossOrigin : FlagValues,
      hdrTokenType : TypeValues, qTokenType : TypeValues,
      hdrCount : CountValues ]

\* the requests of the lifecycle specifications: same-origin requests whose
\* signals are sent as headers
LifecycleRequests ==
    { r \in AllOriginRequests :
        /\ r.qNonInteractive = "" /\ r.qCrossOrigin = "" /\ r.qTokenType = ""
        /\ r.hdrCrossOrigin = ""
        /\ r.hdrTokenType \in {"", "2"}
        /\ r.hdrCount \in {"", "2"} }

\* strconv.Atoi on the strings above: [ok, val]
DecimalStrings ==
    ("-1" :> -1) @@ ("0" :> 0) @@ ("1" :> 1) @@ ("2" :> 2) @@ ("3" :> 3) @@
    ("9" :> 9) @@ ("10" :> 10)
Atoi(str) ==
    IF str \in DOMAIN DecimalStrings
    THEN [ok |-> TRUE, val |-> DecimalStrings[str]]
    ELSE [ok |-> FALSE, val |-> 0]

\* ------------------------------------------------ Origin: CreateChallenge
\* a CreateChallenge that reads the non-interactive signal from the header only
ChallengeNonceMut(req, nonce) ==
    IF req.hdrNonInteractive # "" THEN EmptyBytes ELSE nonce

\* lines 63-77
ChallengeNonce(req, nonce) ==
    IF req.hdrNonInteractive # "" \/ req.qNonInteractive # "" THEN EmptyBytes ELSE nonce

ChallengeOriginInfo(req) ==
    IF req.hdrCrossOrigin # "" \/ req.qCrossOrigin # ""
    THEN << >>
    ELSE << originName >> \o additionalOriginInfo

\* a CreateChallenge that consults the query parameter whenever the header
\* does not say Basic
ChallengeTokenTypeMut(req) ==
    IF (Atoi(req.hdrTokenType).ok /\ Atoi(req.hdrTokenType).val = BasicPublicTokenType)
       \/ (Atoi(req.qTokenType).ok /\ Atoi(req.qTokenType).val = BasicPublicTokenType)
    THEN [tokenType |-> BasicPublicTokenType, tokenKey |-> basicTokenKeyEnc]
    ELSE [tokenType |-> RateLimitedTokenType, tokenKey |-> rateLimitedTokenKeyEnc]

\* lines 79-97: [tokenType, tokenKey]
ChallengeTokenType(req) ==
    LET rl == [tokenType |-> RateLimitedTokenType, tokenKey |-> rateLimitedTokenKeyEnc]
        ba == [tokenType |-> BasicPublicTokenType, tokenKey |-> basicTokenKeyEnc]
    IN  IF req.hdrTokenType # "" \/ req.qTokenType # ""
        THEN IF Atoi(req.hdrTokenType).ok
             THEN IF Atoi(req.hdrTokenType).val = BasicPublicTokenType THEN ba ELSE rl
             ELSE IF Atoi(req.qTokenType).ok
                       /\ Atoi(req.qTokenType).val = BasicPublicTokenType
                  THEN ba ELSE rl
        ELSE rl

\* lines 99-104; `serial` is history: it numbers the issuances and is not serialized
TokenChallenge(req, nonce, serial) ==
    [ TokenType |-> ChallengeTokenType(req).tokenType,
      IssuerName |-> issuerName,
      OriginInfo |-> ChallengeOriginInfo(req),
      RedemptionNonce |-> ChallengeNonce(req, nonce),
      serial |-> serial ]

\* line 107: challenge.Marshal()
Marshal(ch) == << ch.TokenType, ch.IssuerName, ch.OriginInfo, ch.RedemptionNonce >>

\* lines 108-109: hex(sha256(challengeEnc)); the hash is taken to be free of
\* collisions, so a context is named by the serialization it is the hash of
ContextOf(challengeEnc) == << "sha256", challengeEnc >>

\* an issuance that replaces the queue of its context
AppendChallengeMut(chs, contextEnc, challenge) == Put(chs, contextEnc, << challenge >>)

\* lines 114-118: the append under the lock
AppendChallenge(chs, contextEnc, challenge) ==
    LET chs1 == IF ~Has(chs, contextEnc) THEN Put(chs, contextEnc, << >>) ELSE chs
    IN  Put(chs1, contextEnc, Append(chs1[contextEnc], challenge))

\* lines 62-122: [challenges, challenge, contextEnc, challengeEnc, tokenKey]
CreateChallenge(chs, req, nonce, serial) ==
    LET challenge == TokenChallenge(req, nonce, serial)
        challengeEnc == Marshal(challenge)
        contextEnc == ContextOf(challengeEnc)
    IN  [ challenges |-> AppendChallenge(chs, contextEnc, challenge),
          challenge |-> challenge,
          contextEnc |-> contextEnc,
          challengeEnc |-> challengeEnc,
          tokenKey |-> ChallengeTokenType(req).tokenKey ]

\* ------------------------------------------------ Origin: handleRequest
\* a count header of 10 is honoured too
ChallengeCountMut(req) ==
    IF req.hdrCount # ""
       /\ Atoi(req.hdrCount).ok
       /\ Atoi(req.hdrCount).val > 0
       /\ Atoi(req.hdrCount).val <= 10
    THEN Atoi(req.hdrCount).val
    ELSE 1

\* lines 132-139
ChallengeCount(req) ==
    IF req.hdrCount # ""
       /\ Atoi(req.hdrCount).ok
       /\ Atoi(req.hdrCount).val > 0
       /\ Atoi(req.hdrCount).val < 10
    THEN Atoi(req.hdrCount).val
    ELSE 1

\* lines 141-148: the loop; [challenges, contexts, advertised]
RECURSIVE IssueLoop(_, _, _, _, _)
IssueLoop(acc, req, nonces, serial, k) ==
    IF k > Len(nonces)
    THEN acc
    ELSE LET c == CreateChallenge(acc.challenges, req, nonces[k], serial + k)
         IN  IssueLoop([ challenges |-> c.challenges,
                         contexts |-> Append(acc.contexts, c.contextEnc),
                         advertised |-> Append(acc.advertised,
                                          [challenge |-> c.challengeEnc, tokenKey |-> c.tokenKey]) ],
                       req, nonces, serial, k + 1)

QLen(chs, contextEnc) == IF Has(chs, contextEnc) THEN Len(chs[contextEnc]) ELSE 0

NoContext == << "none" >>
OriginResponse(op, fault, status, contextEnc, matched, serial, fetched, advertised) ==
    [ op |-> op, fault |-> fault, status |-> status, context |-> contextEnc,
      matched |-> matched, serial |-> serial, fetched |-> fetched,
      advertised |-> advertised ]

\* lines 129-153: request `req` has no Authorization header
ChallengeWith(req) ==
    /\ \E nonces \in [1..ChallengeCount(req) -> NonceValues] :
          LET r == IssueLoop([challenges |-> challenges, contexts |-> << >>,
                              advertised |-> << >>], req, nonces, Len(issued), 1)
          IN  /\ challenges' = r.challenges
              /\ issued' = issued \o r.contexts
              /\ lastO' = OriginResponse("challenge", "none", StatusUnauthorized,
                                         NoContext, FALSE, 0, 0, r.advertised)
    /\ UNCHANGED consumed

Challenge ==
    \E req \in LifecycleRequests :
      /\ Len(issued) + ChallengeCount(req) <= MaxIssued
      /\ ChallengeWith(req)

\* lines 155-176: an Authorization header that does not yield a Token
RejectAuthorization ==
    /\ \E f \in {"prefix", "base64", "unmarshalToken"} :
          lastO' = OriginResponse("redeem", f, StatusBadRequest, NoContext, FALSE, 0, 0, << >>)
    /\ UNCHANGED << challenges, issued, consumed >>

\* the key the authenticator of a presented token verifies under, if any
TokenSigners == {"basicKey", "rateLimitedKey", "forged"}
\* lines 195-198
ValidationKey(challenge) ==
    IF challenge.TokenType = BasicPublicTokenType THEN "basicKey" ELSE "rateLimitedKey"

\* contexts a client can present: those of the challenges issued and a forged one
ForgedContext == << "sha256", << "forged" >> >>
TokenContexts == { issued[k] : k \in 1..Len(issued) } \cup { ForgedContext }

\* lines 214-236: the first step of the fetch that fails
FetchFaults == {"newRequest", "do", "readBody", "none"}

\* the first challenge is read but the queue is left as it was
PopChallengeMut(chs, contextEnc) ==
    [ challenge |-> Head(chs[contextEnc]), challenges |-> chs ]

\* the challenge handed to verification is the newest of the queue
FirstChallengeMut(challengeList) == challengeList[Len(challengeList)]

\* line 186: challengeList[0]
FirstChallenge(challengeList) == Head(challengeList)

\* an emptied queue is left in the map
DeleteIfEmptyMut(chs, contextEnc) == chs

\* lines 190-192
DeleteIfEmpty(chs, contextEnc) ==
    IF Len(chs[contextEnc]) = 0 THEN Remove(chs, contextEnc) ELSE chs

\* lines 186-192: [challenge, challenges]
PopChallenge(chs, contextEnc) ==
    [ challenge |-> FirstChallenge(chs[contextEnc]),
      challenges |-> DeleteIfEmpty(Put(chs, contextEnc, Tail(chs[contextEnc])),
                                   contextEnc) ]

\* the lookup leaves an empty queue behind for the unknown context
AfterUnknownContextMut(chs, contextEnc) == Put(chs, contextEnc, << >>)

\* lines 180-184: the map after a token whose context has no queue is rejected
AfterUnknownContext(chs, contextEnc) == chs

\* the challenge is put back when verification fails
AfterVerifyFailureMut(before, popped) == before

\* lines 207-212: the map after the authenticator failed to verify; `before` is
\* the map when the token arrived and `popped` the map after lines 186-192
AfterVerifyFailure(before, popped) == popped

\* lines 178-238: a decoded Token
Redeem ==
    \E tokenContextEnc \in TokenContexts :
      IF ~Has(challenges, tokenContextEnc)
      THEN /\ lastO' = OriginResponse("redeem", "unknownContext", StatusBadRequest,
                                      tokenContextEnc, FALSE, 0, 0, << >>)
           /\ challenges' = AfterUnknownContext(challenges, tokenContextEnc)
           /\ UNCHANGED << issued, consumed >>
      ELSE LET p == PopChallenge(challenges, tokenContextEnc)
           IN  /\ consumed' = Append(consumed, p.challenge.serial)
               /\ UNCHANGED issued
               /\ \E signer \in TokenSigners :
                    IF signer # ValidationKey(p.challenge)
                    THEN /\ lastO' = OriginResponse("redeem", "verify", StatusBadRequest,
                                                    tokenContextEnc, TRUE, p.challenge.serial,
                                                    0, << >>)
                         /\ challenges' = AfterVerifyFailure(challenges, p.challenges)
                    ELSE \E ff \in FetchFaults :
                           LET fetched == IF ff = "newRequest" THEN 0 ELSE 1
                           IN  /\ lastO' = OriginResponse("redeem", ff,
                                             IF ff = "none" THEN StatusOK
                                                            ELSE StatusInternalServerError,
                                             tokenContextEnc, TRUE, p.challenge.serial,
                                             fetched, << >>)
                               /\ challenges' = p.challenges

handleRequest ==
    \/ Challenge
    \/ RejectAuthorization
    \/ Redeem

\* lines 311-322: startOrigin
OriginInit ==
    /\ challenges = EmptyMap
    /\ issued = << >>
    /\ consumed = << >>
    /\ lastO = OriginResponse("none", "none", 0, NoContext, FALSE, 0, 0, << >>)

\* ------------------------------------------------ Attester: concurrent handlers
\* net/http runs handleAttestationRequest in one goroutine per request and the
\* handler takes no lock.  A goroutine is followed from line 231 on, for a
\* rate-limited request that passed every check; it advances by one access to
\* a shared map at a time.
Procs == 1..NumProcs
ConcClientIDs == {"default"}
ConcTokenLimits == {1, NumProcs}

AttIdle ==
    [ pc |-> "idle", clientID |-> "", anonOriginEnc |-> "", indexEnc |-> "",
      tokenLimit |-> 0, state |-> 0, tmp |-> 0, status |-> 0 ]

AttDone(g, status) == [ g EXCEPT !.pc = "done", !.status = status ]

\* the map a goroutine at `pc` accesses next and whether it writes it
AttAccess(g) ==
    CASE g.pc = "l232"  -> [map |-> << "clientState" >>, write |-> FALSE]
      [] g.pc = "l241"  -> [map |-> << "clientState" >>, write |-> TRUE]
      [] g.pc = "l247"  -> [map |-> << "originIndices", g.state >>, write |-> FALSE]
      [] g.pc = "l252"  -> [map |-> << "originIndices", g.state >>, write |-> TRUE]
      [] g.pc = "l253"  -> [map |-> << "originCounts", g.state >>, write |-> TRUE]
      [] g.pc = "l266r" -> [map |-> << "originCounts", g.state >>, write |-> FALSE]
      [] g.pc = "l266w" -> [map |-> << "originCounts", g.state >>, write |-> TRUE]
      [] g.pc = "l268"  -> [map |-> << "originCounts", g.state >>, write |-> FALSE]
      [] OTHER          -> [map |-> << "none" >>, write |-> FALSE]

\* two goroutines are about to access the same map and one of them writes it
AttRace ==
    \E p, q \in Procs :
        /\ p # q
        /\ AttAccess(att[p]).map # << "none" >>
        /\ AttAccess(att[p]).map = AttAccess(att[q]).map
        /\ AttAccess(att[p]).write

\* lines 108-230: a request arrives and passes every check
AttStart(p) ==
    /\ ~crashed
    /\ att[p].pc = "idle"
    /\ \E c \in ConcClientIDs, o \in AnonOriginEncs, i \in IndexEncs, L \in ConcTokenLimits :
          att' = [att EXCEPT ![p] = [ AttIdle EXCEPT !.pc = "l232", !.clientID = c,
                                      !.anonOriginEnc = o, !.indexEnc = i, !.tokenLimit = L ]]
    /\ UNCHANGED << clientState, heap, nextObj, crashed >>

\* line 232: state, ok := a.clientState[clientID]
AttL232(p) ==
    /\ ~crashed
    /\ att[p].pc = "l232"
    /\ att' = [att EXCEPT ![p] =
                  IF Has(clientState, att[p].clientID)
                  THEN [ @ EXCEPT !.pc = "l247", !.state = clientState[att[p].clientID] ]
                  ELSE [ @ EXCEPT !.pc = "l241" ]]
    /\ UNCHANGED << clientState, heap, nextObj, crashed >>

\* lines 237-244, then 277-278
AttL241(p) ==
    /\ ~crashed
    /\ att[p].pc = "l241"
    /\ heap' = Put(heap, nextObj, NewClientState(att[p].anonOriginEnc, att[p].indexEnc))
    /\ clientState' = Put(clientState, att[p].clientID, nextObj)
    /\ nextObj' = nextObj + 1
    /\ att' = [att EXCEPT ![p] = AttDone(@, StatusOK)]
    /\ UNCHANGED crashed

\* lines 247-263: oldIndexEnc, ok := state.originIndices[anonOriginEnc]
AttL247(p) ==
    /\ ~crashed
    /\ att[p].pc = "l247"
    /\ LET g == att[p]
           st == heap[g.state]
       IN  att' = [att EXCEPT ![p] =
                     IF ~Has(st.originIndices, g.anonOriginEnc)
                     THEN [ g EXCEPT !.pc = "l252" ]
                     ELSE IF st.originIndices[g.anonOriginEnc] # g.indexEnc
                     THEN IF IndexMismatchRejected(errAtIndexCheck)
                          THEN AttDone(g, StatusBadRequest)
                          ELSE AttDone(g, StatusOK)
                     ELSE [ g EXCEPT !.pc = "l266r" ]]
    /\ UNCHANGED << clientState, heap, nextObj, crashed >>

\* line 252: state.originIndices[anonOriginEnc] = indexEnc
AttL252(p) ==
    /\ ~crashed
    /\ att[p].pc = "l252"
    /\ LET g == att[p]
       IN  heap' = [heap EXCEPT ![g.state].originIndices = Put(@, g.anonOriginEnc, g.indexEnc)]
    /\ att' = [att EXCEPT ![p].pc = "l253"]
    /\ UNCHANGED << clientState, nextObj, crashed >>

\* line 253: state.originCounts[anonOriginEnc] = 1, then 277-278
AttL253(p) ==
    /\ ~crashed
    /\ att[p].pc = "l253"
    /\ LET g == att[p]
       IN  heap' = [heap EXCEPT ![g.state].originCounts = Put(@, g.anonOriginEnc, 1)]
    /\ att' = [att EXCEPT ![p] = AttDone(@, StatusOK)]
    /\ UNCHANGED << clientState, nextObj, crashed >>

\* line 266, right-hand side: state.originCounts[indexEnc] + 1
AttL266r(p) ==
    /\ ~crashed
    /\ att[p].pc = "l266r"
    /\ LET g == att[p]
           key == CountKey(g.anonOriginEnc, g.indexEnc)
       IN  att' = [att EXCEPT ![p] =
                     [ g EXCEPT !.pc = "l266w",
                                !.tmp = Get0(heap[g.state].originCounts, key) + 1 ]]
    /\ UNCHANGED << clientState, heap, nextObj, crashed >>

\* line 266, the assignment
AttL266w(p) ==
    /\ ~crashed
    /\ att[p].pc = "l266w"
    /\ LET g == att[p]
           key == CountKey(g.anonOriginEnc, g.indexEnc)
       IN  heap' = [heap EXCEPT ![g.state].originCounts = Put(@, key, g.tmp)]
    /\ att' = [att EXCEPT ![p].pc = "l268"]
    /\ UNCHANGED << clientState, nextObj, crashed >>

\* lines 268-278
AttL268(p) ==
    /\ ~crashed
    /\ att[p].pc = "l268"
    /\ LET g == att[p]
           key == CountKey(g.anonOriginEnc, g.indexEnc)
       IN  att' = [att EXCEPT ![p] =
                     IF LimitExceeded(Get0(heap[g.state].originCounts, key), g.tokenLimit)
                     THEN AttDone(g, StatusTooManyRequests)
                     ELSE AttDone(g, StatusOK)]
    /\ UNCHANGED << clientState, heap, nextObj, crashed >>

\* the runtime detects the unsynchronized map access and ends the process
\* ("fatal error: concurrent map writes")
AttRuntimeFault ==
    /\ ~crashed
    /\ AttRace
    /\ crashed' = TRUE
    /\ UNCHANGED << clientState, heap, nextObj, att >>

AttesterConcNext ==
    \/ \E p \in Procs : AttStart(p)
    \/ \E p \in Procs : AttL232(p)
    \/ \E p \in Procs : AttL241(p)
    \/ \E p \in Procs : AttL247(p)
    \/ \E p \in Procs : AttL252(p)
    \/ \E p \in Procs : AttL253(p)
    \/ \E p \in Procs : AttL266r(p)
    \/ \E p \in Procs : AttL266w(p)
    \/ \E p \in Procs : AttL268(p)
    \/ AttRuntimeFault

\* ------------------------------------------------ Origin: concurrent handlers
\* net/http runs handleRequest in one goroutine per request.  handleRequest and
\* CreateChallenge have value receivers (lines 62 and 124), so every call works
\* on its own copy of the Origin struct: the map is shared through its
\* reference, challengeLock is copied.  A goroutine advances by one access to
\* the shared map at a time.
ConcRequests == { r \in LifecycleRequests : r.hdrTokenType = "" }

NoChallenge ==
    [ TokenType |-> 0, IssuerName |-> "", OriginInfo |-> << >>,
      RedemptionNonce |-> EmptyBytes, serial |-> 0 ]
NoRequest == CHOOSE r \in AllOriginRequests : \A x \in DOMAIN r : r[x] = ""

OriIdle ==
    [ pc |-> "idle", op |-> "none", req |-> NoRequest, remaining |-> 0,
      context |-> NoContext, challenge |-> NoChallenge, list |-> << >>,
      challengeLock |-> "unlocked", status |-> 0, panicked |-> FALSE ]

OriDone(g, status) == [ g EXCEPT !.pc = "done", !.status = status ]
\* a run-time panic ends the handler; net/http recovers it and sends no response
OriPanic(g) == [ g EXCEPT !.pc = "done", !.panicked = TRUE ]

OriReads == {"l114", "l118r", "l179", "l187r", "l190"}
OriWrites == {"l116", "l118w", "l187w", "l191"}

\* two goroutines are about to access o.challenges and one of them writes it
OriRace ==
    \E p, q \in Procs :
        /\ p # q
        /\ ori[p].pc \in OriWrites
        /\ ori[q].pc \in OriReads \cup OriWrites

\* lines 129-141: a request without Authorization header arrives
OriStartChallenge(p) ==
    /\ ~crashed
    /\ ori[p].pc = "idle"
    /\ \E req \in ConcRequests :
          /\ Len(issued) + ChallengeCount(req) <= MaxIssued
          /\ ori' = [ori EXCEPT ![p] = [ OriIdle EXCEPT !.pc = "l99", !.op = "challenge",
                                         !.req = req, !.remaining = ChallengeCount(req) ]]
    /\ UNCHANGED << challenges, issued, consumed, crashed >>

\* lines 62-109: CreateChallenge builds the challenge on a copy of the Origin
OriL99(p) ==
    /\ ~crashed
    /\ ori[p].pc = "l99"
    /\ Len(issued) < MaxIssued
    /\ \E nonce \in NonceValues :
          LET challenge == TokenChallenge(ori[p].req, nonce, Len(issued) + 1)
              contextEnc == ContextOf(Marshal(challenge))
          IN  /\ issued' = Append(issued, contextEnc)
              /\ ori' = [ori EXCEPT ![p] = [ @ EXCEPT !.pc = "l112", !.challenge = challenge,
                                                      !.context = contextEnc,
                                                      !.challengeLock = "unlocked" ]]
    /\ UNCHANGED << challenges, consumed, crashed >>

\* line 112: o.challengeLock.Lock() on the copy this call received
OriL112(p) ==
    /\ ~crashed
    /\ ori[p].pc = "l112"
    /\ ori[p].challengeLock = "unlocked"
    /\ ori' = [ori EXCEPT ![p] = [ @ EXCEPT !.pc = "l114", !.challengeLock = "locked" ]]
    /\ UNCHANGED << challenges, issued, consumed, crashed >>

\* line 114: _, ok := o.challenges[contextEnc]
OriL114(p) ==
    /\ ~crashed
    /\ ori[p].pc = "l114"
    /\ ori' = [ori EXCEPT ![p].pc = IF Has(challenges, ori[p].context) THEN "l118r" ELSE "l116"]
    /\ UNCHANGED << challenges, issued, consumed, crashed >>

\* line 116: o.challenges[contextEnc] = make([]pat.TokenChallenge, 0)
OriL116(p) ==
    /\ ~crashed
    /\ ori[p].pc = "l116"
    /\ challenges' = Put(challenges, ori[p].context, << >>)
    /\ ori' = [ori EXCEPT ![p].pc = "l118r"]
    /\ UNCHANGED << issued, consumed, crashed >>

\* line 118, right-hand side: append(o.challenges[contextEnc], challenge)
OriL118r(p) ==
    /\ ~crashed
    /\ ori[p].pc = "l118r"
    /\ LET cur == IF Has(challenges, ori[p].context) THEN challenges[ori[p].context] ELSE << >>
       IN  ori' = [ori EXCEPT ![p] = [ @ EXCEPT !.pc = "l118w",
                                                !.list = Append(cur, ori[p].challenge) ]]
    /\ UNCHANGED << challenges, issued, consumed, crashed >>

\* line 118, the assignment; then the deferred Unlock of line 113, the return
\* of line 121 and the next round of the loop of line 141
OriL118w(p) ==
    /\ ~crashed
    /\ ori[p].pc = "l118w"
    /\ challenges' = Put(challenges, ori[p].context, ori[p].list)
    /\ ori' = [ori EXCEPT ![p] =
                 IF ori[p].remaining > 1
                 THEN [ @ EXCEPT !.pc = "l99", !.remaining = @ - 1, !.list = << >>,
                                 !.challengeLock = "unlocked" ]
                 ELSE [ OriDone(@, StatusUnauthorized) EXCEPT !.remaining = 0, !.list = << >>,
                                 !.challengeLock = "unlocked" ]]
    /\ UNCHANGED << issued, consumed, crashed >>

\* lines 155-178: a request with a decodable token arrives
OriStartRedeem(p) ==
    /\ ~crashed
    /\ ori[p].pc = "idle"
    /\ \E tokenContextEnc \in TokenContexts :
          ori' = [ori EXCEPT ![p] = [ OriIdle EXCEPT !.pc = "l179", !.op = "redeem",
                                      !.context = tokenContextEnc ]]
    /\ UNCHANGED << challenges, issued, consumed, crashed >>

\* lines 179-186: challengeList, ok := o.challenges[tokenContextEnc], without
\* the lock; challenge := challengeList[0] panics on an empty list
OriL179(p) ==
    /\ ~crashed
    /\ ori[p].pc = "l179"
    /\ LET g == ori[p]
       IN  IF ~Has(challenges, g.context)
           THEN /\ ori' = [ori EXCEPT ![p] = OriDone(g, StatusBadRequest)]
                /\ UNCHANGED consumed
           ELSE IF Len(challenges[g.context]) = 0
           THEN /\ ori' = [ori EXCEPT ![p] = OriPanic(g)]
                /\ UNCHANGED consumed
           ELSE /\ ori' = [ori EXCEPT ![p] = [ g EXCEPT !.pc = "l187r",
                                                        !.challenge = Head(challenges[g.context]) ]]
                /\ consumed' = Append(consumed, Head(challenges[g.context]).serial)
    /\ UNCHANGED << challenges, issued, crashed >>

\* line 187, right-hand side: o.challenges[tokenContextEnc][1:] reads the map
\* again and panics when the list is empty or the entry is gone
OriL187r(p) ==
    /\ ~crashed
    /\ ori[p].pc = "l187r"
    /\ LET g == ori[p]
           cur == IF Has(challenges, g.context) THEN challenges[g.context] ELSE << >>
       IN  ori' = [ori EXCEPT ![p] =
                     IF Len(cur) = 0
                     THEN OriPanic(g)
                     ELSE [ g EXCEPT !.pc = "l187w", !.list = Tail(cur) ]]
    /\ UNCHANGED << challenges, issued, consumed, crashed >>

\* line 187, the assignment
OriL187w(p) ==
    /\ ~crashed
    /\ ori[p].pc = "l187w"
    /\ challenges' = Put(challenges, ori[p].context, ori[p].list)
    /\ ori' = [ori EXCEPT ![p] = [ @ EXCEPT !.pc = "l190", !.list = << >> ]]
    /\ UNCHANGED << issued, consumed, crashed >>

\* lines 189-190: len(o.challenges[tokenContextEnc]) == 0
OriL190(p) ==
    /\ ~crashed
    /\ ori[p].pc = "l190"
    /\ ori' = [ori EXCEPT ![p].pc = IF QLen(challenges, ori[p].context) = 0 THEN "l191" ELSE "l194"]
    /\ UNCHANGED << challenges, issued, consumed, crashed >>

\* line 191: delete(o.challenges, tokenContextEnc)
OriL191(p) ==
    /\ ~crashed
    /\ ori[p].pc = "l191"
    /\ challenges' = Remove(challenges, ori[p].context)
    /\ ori' = [ori EXCEPT ![p].pc = "l194"]
    /\ UNCHANGED << issued, consumed, crashed >>

\* lines 194-238: verification of the token's authenticator (the key it
\* verifies under is an input of the request, first used here) and the fetch
OriL194(p) ==
    /\ ~crashed
    /\ ori[p].pc = "l194"
    /\ \E signer \in TokenSigners :
         IF signer # ValidationKey(ori[p].challenge)
         THEN ori' = [ori EXCEPT ![p] = OriDone(@, StatusBadRequest)]
         ELSE \E ff \in FetchFaults :
                ori' = [ori EXCEPT ![p] =
                          OriDone(@, IF ff = "none" THEN StatusOK
                                                    ELSE StatusInternalServerError)]
    /\ UNCHANGED << challenges, issued, consumed, crashed >>

\* the runtime detects the unsynchronized map access and ends the process
OriRuntimeFault ==
    /\ ~crashed
    /\ OriRace
    /\ crashed' = TRUE
    /\ UNCHANGED << challenges, issued, consumed, ori >>

OriginConcNext ==
    \/ \E p \in Procs : OriStartChallenge(p)
    \/ \E p \in Procs : OriL99(p)
    \/ \E p \in Procs : OriL112(p)
    \/ \E p \in Procs : OriL114(p)
    \/ \E p \in Procs : OriL116(p)
    \/ \E p \in Procs : OriL118r(p)
    \/ \E p \in Procs : OriL118w(p)
    \/ \E p \in Procs : OriStartRedeem(p)
    \/ \E p \in Procs : OriL179(p)
    \/ \E p \in Procs : OriL187r(p)
    \/ \E p \in Procs : OriL187w(p)
    \/ \E p \in Procs : OriL190(p)
    \/ \E p \in Procs : OriL191(p)
    \/ \E p \in Procs : OriL194(p)
    \/ OriRuntimeFault

ConcInit ==
    /\ att = [ p \in Procs |-> AttIdle ]
    /\ ori = [ p \in Procs |-> OriIdle ]
    /\ crashed = FALSE

\* ------------------------------------------------ specifications
ChallengeInit == creq = NoRequest /\ nChal = 0

Init == AttesterInit /\ OriginInit /\ ConcInit /\ ChallengeInit

\* the Attester serving requests in concurrent goroutines
NextAttesterConc ==
    AttesterConcNext /\ UNCHANGED << nReq, nForwards, onlyBasic, hist, last, oriVars, ori, chVars >>
SpecAttesterConc == Init /\ [][NextAttesterConc]_vars

\* the Origin serving requests in concurrent goroutines
NextOriginConc == OriginConcNext /\ UNCHANGED << attVars, lastO, att, chVars >>
SpecOriginConc == Init /\ [][NextOriginConc]_vars

\* the Attester serving one request after the other
Next == handleAttestationRequest /\ UNCHANGED << oriVars, conVars, chVars >>
Spec == Init /\ [][Next]_vars

\* the Origin serving one request after the other
NextOrigin == handleRequest /\ UNCHANGED << attVars, conVars, chVars >>
SpecOrigin == Init /\ [][NextOrigin]_vars

\* the Attester serving one client whose rate-limited requests all pass the
\* checks and whose Issuer answers every one of them with the same limit
QuotaClient == "default"
QuotaLimit == 3
VerifiedRequest ==
    /\ nReq < MaxQuotaReq
    /\ \E o \in AnonOriginEncs, i \in IndexEncs :
          QuotaUpdate("none", ForwardAttempts("none"), QuotaClient, o, i, QuotaLimit)
    /\ nForwards' = nForwards + ForwardAttempts("none")
    /\ nReq' = nReq + 1
    /\ onlyBasic' = FALSE
NextQuota == VerifiedRequest /\ UNCHANGED << oriVars, conVars, chVars >>
SpecQuota == Init /\ [][NextQuota]_vars

\* the Origin challenging a client that repeats one request without
\* credentials; the request is any combination of the headers and query
\* parameters that CreateChallenge and handleRequest read
InitChallenge ==
    /\ AttesterInit /\ OriginInit /\ ConcInit
    /\ creq \in AllOriginRequests
    /\ nChal = 0
ChallengeRequest ==
    /\ nChal < MaxRounds
    /\ ChallengeWith(creq)
    /\ nChal' = nChal + 1
    /\ UNCHANGED creq
NextChallenge == ChallengeRequest /\ UNCHANGED << attVars, conVars >>
SpecChallenge == InitChallenge /\ [][NextChallenge]_vars

\* ------------------------------------------------ Attester, one request at a time
\* the step handles one more Attester request
AttesterStep == nReq' = nReq + 1

\* the requests of one pair all derived the same index under the same limit
SameIndexAndLimit(h) ==
    \A j, k \in 1..Len(h) :
        h[j].indexEnc = h[k].indexEnc /\ h[j].tokenLimit = h[k].tokenLimit

\* C1: for every (client, origin) pair whose rate-limited requests all derive
\* the same index under the same limit L >= 1, the first L requests are
\* answered 200 and the (L+1)-th is answered 429, whatever was handled for
\* other pairs in between.
C1_Quota ==
    \A p \in DOMAIN hist :
        LET h == hist[p]
        IN  (Len(h) > 0 /\ SameIndexAndLimit(h) /\ h[1].tokenLimit >= 1) =>
                \A k \in 1..Len(h) :
                    /\ k <= h[1].tokenLimit => h[k].status = StatusOK
                    /\ k = h[1].tokenLimit + 1 => h[k].status = StatusTooManyRequests

\* C2: a rate-limited request for a pair with a recorded index that derives a
\* different index is answered 400 and the Issuer's bytes are not written.
C2_IndexStability ==
    (/\ last.kind = "ratelimited"
     /\ last.fault = "none"
     /\ StateOf(clientState, heap, last.clientID).originIndices[last.anonOriginEnc]
            # last.indexEnc)
    => (last.status = StatusBadRequest /\ ~last.wrote)

\* C6: a Basic request is forwarded exactly once and leaves the client-state
\* map as it was; after N requests that were all Basic there have been N
\* forwards and the map is empty.
C6_BasicPath ==
    /\ [](onlyBasic => (nForwards = nReq /\ clientState = EmptyMap /\ heap = EmptyMap))
    /\ [][ (AttesterStep /\ last'.kind = "basic") =>
             /\ last'.forwards = 1
             /\ nForwards' = nForwards + 1
             /\ clientState' = clientState
             /\ heap' = heap ]_vars

C6_Witness == last.kind = "basic" /\ onlyBasic /\ nReq >= 2

\* the checks made before the request is forwarded
PreForwardFaults == {"unmarshal", "hdrOrigin", "hdrClientKey", "hdrRequestBlind", "signature"}

\* C9: a rate-limited request that fails body decoding, a structured header or
\* signature verification is answered 400 and causes no forward.
C9_RejectBeforeForward ==
    [][ (AttesterStep /\ last'.kind = "ratelimited" /\ last'.fault \in PreForwardFaults) =>
           /\ last'.status = StatusBadRequest
           /\ last'.forwards = 0
           /\ nForwards' = nForwards ]_vars

C9_Witness == last.kind = "ratelimited" /\ last.fault = "signature" /\ nForwards >= 1

\* the failures C10 names: malformed body or headers, bad signature, Issuer
\* unreachable, issuance-limit header missing or not a number
NoMutationFaults == PreForwardFaults \cup {"forward", "limitMissing", "limitInvalid"}

\* C10: a rate-limited request that fails one of these checks is answered 400
\* and leaves the indices and counts of every client as they were.
C10_ErrorsKeepState ==
    [][ (AttesterStep /\ last'.kind = "ratelimited" /\ last'.fault \in NoMutationFaults) =>
           /\ last'.status = StatusBadRequest
           /\ clientState' = clientState
           /\ heap' = heap ]_vars

C10_Witness ==
    /\ last.kind = "ratelimited"
    /\ last.fault = "limitInvalid"
    /\ clientState # EmptyMap

\* ------------------------------------------------ Origin, one request at a time
IssuedCount(contextEnc) == Cardinality({ k \in 1..Len(issued) : issued[k] = contextEnc })
MatchedCount(contextEnc) ==
    Cardinality({ k \in 1..Len(consumed) : issued[consumed[k]] = contextEnc })
IssuedContexts == { issued[k] : k \in 1..Len(issued) }
ConsumedSerials == { consumed[k] : k \in 1..Len(consumed) }

\* C3: no challenge is matched twice, the redemptions that found a challenge
\* for a context never outnumber the challenges issued for it, and a redemption
\* that follows the one that took the last challenge of its context is
\* answered 400 without a match.
C3_NoReplay ==
    /\ [](/\ \A j, k \in 1..Len(consumed) : j # k => consumed[j] # consumed[k]
          /\ \A c \in IssuedContexts : MatchedCount(c) <= IssuedCount(c))
    /\ [][ (/\ lastO.op = "redeem" /\ lastO.matched
            /\ ~Has(challenges, lastO.context)
            /\ lastO'.op = "redeem" /\ lastO'.context = lastO.context) =>
              (lastO'.status = StatusBadRequest /\ ~lastO'.matched) ]_vars

C3_Witness ==
    /\ lastO.op = "redeem" /\ lastO.fault = "unknownContext"
    /\ \E k \in 1..Len(consumed) : issued[consumed[k]] = lastO.context

\* C7: a redemption whose context has no queue is answered 400, fetches
\* nothing and leaves the challenge map as it was.
C7_UnknownContext ==
    [][ (/\ lastO'.op = "redeem" /\ lastO'.context # NoContext
         /\ ~Has(challenges, lastO'.context)) =>
           /\ lastO'.status = StatusBadRequest
           /\ lastO'.fetched = 0
           /\ challenges' = challenges ]_vars

C7_Witness ==
    /\ lastO.op = "redeem" /\ lastO.fault = "unknownContext"
    /\ lastO.context = ForgedContext
    /\ challenges # EmptyMap

\* C8: a redemption that matches a challenge and fails verification is
\* answered 400, its context's queue is one entry shorter than before, and no
\* challenge taken by a redemption is ever queued again.
C8_FailedAttemptConsumes ==
    /\ [](\A c \in DOMAIN challenges : \A k \in 1..Len(challenges[c]) :
              challenges[c][k].serial \notin ConsumedSerials)
    /\ [][ (Len(consumed') = Len(consumed) + 1 /\ lastO'.fault = "verify") =>
             /\ lastO'.status = StatusBadRequest
             /\ lastO'.fetched = 0
             /\ QLen(challenges', lastO'.context) = QLen(challenges, lastO'.context) - 1
             /\ \A c \in (DOMAIN challenges) \ {lastO'.context} :
                    Has(challenges', c) /\ challenges'[c] = challenges[c] ]_vars

C8_Witness ==
    /\ lastO.op = "redeem" /\ lastO.fault = "verify"
    /\ QLen(challenges, lastO.context) = 1

\* ------------------------------------------------ Attester, concurrent requests
AttAllDone == \A p \in Procs : att[p].pc = "done"

\* every goroutine served the same (client, origin) pair with the same index
\* under the same limit, which is at least the number of requests
AttSamePair ==
    \A p \in Procs :
        /\ att[p].clientID = att[1].clientID
        /\ att[p].anonOriginEnc = att[1].anonOriginEnc
        /\ att[p].indexEnc = att[1].indexEnc
        /\ att[p].tokenLimit = att[1].tokenLimit
        /\ att[p].tokenLimit >= NumProcs

AttGranted == { p \in Procs : att[p].status = StatusOK }

\* C4: when N concurrent requests for one pair with one index under a limit
\* L >= N have all been handled, the issuance count of the pair is N and at
\* most L of them were granted.
C4_ConcurrentAccounting ==
    (AttAllDone /\ AttSamePair) =>
        /\ Get0(StateOf(clientState, heap, att[1].clientID).originCounts,
                att[1].anonOriginEnc) = NumProcs
        /\ Cardinality(AttGranted) <= att[1].tokenLimit

\* ------------------------------------------------ Origin, concurrent requests
\* positions between a handler's first and last access to the challenge map
OriCritical == {"l114", "l116", "l118r", "l118w", "l187r", "l187w", "l190", "l191"}

\* C5: the lookup-and-pop of a redemption and the append of an issuance exclude
\* each other: no two handlers are inside them at once, no challenge is taken
\* by two redemptions, and no handler indexes or slices a queue that is empty
\* or gone.
C5_MutualExclusion ==
    /\ \A p, q \in Procs :
          p # q => ~(ori[p].pc \in OriCritical /\ ori[q].pc \in OriCritical)
    /\ \A j, k \in 1..Len(consumed) : j # k => consumed[j] # consumed[k]
    /\ \A p \in Procs : ~ori[p].panicked

\* ------------------------------------------------ Origin, challenge shape
NonInteractiveSignal(req) == req.hdrNonInteractive # "" \/ req.qNonInteractive # ""
CrossOriginSignal(req) == req.hdrCrossOrigin # "" \/ req.qCrossOrigin # ""

QueuedChallenges ==
    UNION { { challenges[c][k] : k \in 1..Len(challenges[c]) } : c \in DOMAIN challenges }
TotalQueued(chs) ==
    LET RECURSIVE Sum(_)
        Sum(S) == IF S = {} THEN 0
                  ELSE LET c == CHOOSE x \in S : TRUE IN Len(chs[c]) + Sum(S \ {c})
    IN  Sum(DOMAIN chs)

\* C11: every challenge issued for a request has an empty redemption nonce
\* exactly when the request carries the non-interactive signal (header or
\* query parameter), and otherwise a nonce of challengeNonceLength bytes; it
\* has an empty origin-info list exactly when the request carries the
\* cross-origin signal, and otherwise the origin name followed by the
\* additional origin names.  The advertised encodings carry the same fields.
C11_ChallengeShape ==
    /\ \A ch \in QueuedChallenges :
          /\ (ch.RedemptionNonce.len = 0) <=> NonInteractiveSignal(creq)
          /\ ~NonInteractiveSignal(creq) =>
                 ch.RedemptionNonce.len = challengeNonceLength /\ challengeNonceLength > 0
          /\ (ch.OriginInfo = << >>) <=> CrossOriginSignal(creq)
          /\ ~CrossOriginSignal(creq) =>
                 ch.OriginInfo = << originName >> \o additionalOriginInfo
    /\ \A k \in 1..Len(lastO.advertised) :
          /\ (lastO.advertised[k].challenge[4].len = 0) <=> NonInteractiveSignal(creq)
          /\ (lastO.advertised[k].challenge[3] = << >>) <=> CrossOriginSignal(creq)

C11_Witness ==
    /\ nChal > 0
    /\ creq.hdrNonInteractive = "" /\ creq.qNonInteractive # ""
    /\ ~CrossOriginSignal(creq)
    /\ \E ch \in QueuedChallenges :
          ch.RedemptionNonce.len = 0 /\ Len(ch.OriginInfo) = 1 + Len(additionalOriginInfo)

\* ------------------------------------------------ Attester, per-pair accounting
\* the step handles a rate-limited request that reached the quota update
QuotaStep == AttesterStep /\ last'.kind = "ratelimited" /\ last'.fault = "none"

\* before the step, the pair of the request handled by it is recorded
PairKnown ==
    Has(StateOf(clientState, heap, last'.clientID).originIndices, last'.anonOriginEnc)

\* the request handled by the step derives the index recorded for its pair
IndexMatches ==
    StateOf(clientState, heap, last'.clientID).originIndices[last'.anonOriginEnc]
        = last'.indexEnc

CountOf(cs, hp, c, o) == Get0(StateOf(cs, hp, c).originCounts, o)

\* requests of one pair that derived the index of the pair's first request
MatchingRequests(h) == Cardinality({ k \in 1..Len(h) : h[k].indexEnc = h[1].indexEnc })

\* C12: a request for a known pair whose derived index equals the recorded one
\* increments the count stored under the pair's anonymized-origin id by exactly
\* one and is answered 429 exactly when the incremented count is >= the limit;
\* so the count stored for a pair is the number of matching-index requests for
\* it that reached the quota update, the first one included.
C12_CountAndLimit ==
    /\ [](\A p \in DOMAIN hist :
            Len(hist[p]) > 0 =>
                CountOf(clientState, heap, p[1], p[2]) = MatchingRequests(hist[p]))
    /\ [][ (QuotaStep /\ PairKnown /\ IndexMatches) =>
             LET c == last'.clientID
                 o == last'.anonOriginEnc
             IN  /\ CountOf(clientState', heap', c, o) = CountOf(clientState, heap, c, o) + 1
                 /\ (last'.status = StatusTooManyRequests) <=>
                        (CountOf(clientState', heap', c, o) >= last'.tokenLimit) ]_vars

\* the pairs other than (c, o) have the same recorded indices and counts in
\* both client-state maps
OtherPairsSame(cs1, hp1, cs2, hp2, c, o) ==
    \A c2 \in ClientIDs :
        LET s1 == StateOf(cs1, hp1, c2)
            s2 == StateOf(cs2, hp2, c2)
        IN  /\ c2 # c => (Has(cs1, c2) <=> Has(cs2, c2)) /\ s1 = s2
            /\ c2 = c =>
                 /\ DOMAIN s2.originIndices = DOMAIN s1.originIndices \cup {o}
                 /\ DOMAIN s2.originCounts = DOMAIN s1.originCounts \cup {o}
                 /\ \A k \in (DOMAIN s1.originIndices) \ {o} :
                        s2.originIndices[k] = s1.originIndices[k]
                 /\ \A k \in (DOMAIN s1.originCounts) \ {o} :
                        s2.originCounts[k] = s1.originCounts[k]

\* C13: a verified rate-limited request from an unseen client, or for an
\* origin not yet recorded for a known client, records the derived index for
\* the pair, sets its count to 1 and is answered 200 with the Issuer's bytes
\* whatever the limit is; the indices and counts of every other pair stay as
\* they were.
C13_FirstContact ==
    [][ (QuotaStep /\ ~PairKnown) =>
          LET c == last'.clientID
              o == last'.anonOriginEnc
              st == StateOf(clientState', heap', c)
          IN  /\ Has(clientState', c)
              /\ Has(st.originIndices, o) /\ st.originIndices[o] = last'.indexEnc
              /\ Has(st.originCounts, o) /\ st.originCounts[o] = 1
              /\ last'.status = StatusOK /\ last'.wrote
              /\ OtherPairsSame(clientState, heap, clientState', heap', c, o) ]_vars

\* a known client made first contact with a second origin under limit 1
C13_Witness ==
    /\ last.kind = "ratelimited" /\ last.fault = "none"
    /\ last.tokenLimit = 1 /\ last.status = StatusOK /\ last.wrote
    /\ Len(hist[<< last.clientID, last.anonOriginEnc >>]) = 1
    /\ Cardinality(DOMAIN StateOf(clientState, heap, last.clientID).originIndices) = 2
    /\ Cardinality(DOMAIN clientState) = 2

\* ------------------------------------------------ Origin, queue discipline
\* the step is a redemption attempt that found a queue for its context
MatchedStep == Len(consumed') = Len(consumed) + 1 /\ lastO'.op = "redeem"

Serials(q) == [ k \in 1..Len(q) |-> q[k].serial ]

\* C14: the challenges queued under one context are in issuance order, a
\* redemption attempt takes the earliest issued of them and leaves the others
\* in their order, so the challenges of one context are consumed in the order
\* they were issued in.
C14_Fifo ==
    /\ [](\A c \in DOMAIN challenges :
            \A j, k \in 1..Len(challenges[c]) :
                j < k => challenges[c][j].serial < challenges[c][k].serial)
    /\ [](\A j, k \in 1..Len(consumed) :
            (j < k /\ issued[consumed[j]] = issued[consumed[k]])
                => consumed[j] < consumed[k])
    /\ [][ MatchedStep =>
             LET c == lastO'.context
                 q == challenges[c]
             IN  /\ consumed'[Len(consumed')] = q[1].serial
                 /\ \A k \in 1..Len(q) : q[1].serial <= q[k].serial
                 /\ Serials(IF Has(challenges', c) THEN challenges'[c] ELSE << >>)
                        = Tail(Serials(q)) ]_vars

\* two challenges of one context were consumed and a third is still queued
C14_Witness ==
    /\ Len(consumed) = 2
    /\ issued[consumed[1]] = issued[consumed[2]]
    /\ lastO.op = "redeem" /\ lastO.matched
    /\ QLen(challenges, lastO.context) = 1

\* C15: after every completed operation each context present in the challenge
\* map has a non-empty queue; the redemption attempt that pops the last
\* challenge of a context deletes the context's entry in the same step, and a
\* challenge request leaves every queue it created or extended non-empty.
C15_NoEmptyQueue ==
    /\ [](\A c \in DOMAIN challenges : Len(challenges[c]) > 0)
    /\ [][ (MatchedStep /\ Len(challenges[lastO'.context]) = 1)
               => ~Has(challenges', lastO'.context) ]_vars
    /\ [][ lastO'.op = "challenge" =>
               \A k \in Len(issued) + 1 .. Len(issued') :
                   Has(challenges', issued'[k]) /\ Len(challenges'[issued'[k]]) > 0 ]_vars

\* a redemption attempt popped the last challenge of its context while
\* another context still has challenges queued
C15_Witness ==
    /\ lastO.op = "redeem" /\ lastO.matched
    /\ ~Has(challenges, lastO.context)
    /\ DOMAIN challenges # {}

\* serials of the challenges queued under context c
QueuedSerials(chs, c) ==
    IF Has(chs, c) THEN { chs[c][k].serial : k \in 1..Len(chs[c]) } ELSE {}

AllQueuedSerials(chs) == UNION { QueuedSerials(chs, c) : c \in DOMAIN chs }

\* C16: a queued challenge leaves the map only in a redemption attempt whose
\* token context is its own; further issuances and redemption attempts for
\* other contexts, matched or not, leave it queued under its context, so every
\* challenge issued and not taken by a redemption attempt is still queued.
C16_NoExpiry ==
    /\ [](AllQueuedSerials(challenges) = (1..Len(issued)) \ ConsumedSerials)
    /\ [](\A s \in (1..Len(issued)) \ ConsumedSerials :
              s \in QueuedSerials(challenges, issued[s]))
    /\ [][ \A c \in DOMAIN challenges :
             \A s \in QueuedSerials(challenges, c) :
                 s \notin QueuedSerials(challenges', c) =>
                     /\ MatchedStep
                     /\ lastO'.context = c
                     /\ lastO'.serial = s ]_vars

\* the first challenge is still queued after two further issuances and a
\* matched redemption attempt for another context
C16_Witness ==
    /\ Len(issued) = 3 /\ Len(consumed) = 1
    /\ lastO.op = "redeem" /\ lastO.matched
    /\ lastO.context # issued[1]
    /\ 1 \in QueuedSerials(challenges, issued[1])

\* the step serves one more challenge request of shape creq
ChallengeStep == nChal' = nChal + 1

\* the count the client asked for when it is an integer k with 0 < k < 10, and
\* 1 for every other value of the count header
RequestedCount(req) ==
    CASE req.hdrCount = "1" -> 1
      [] req.hdrCount = "2" -> 2
      [] req.hdrCount = "9" -> 9
      [] OTHER -> 1

\* C17: a request without credentials is answered 401 and queues exactly k
\* new challenges, k being the requested count when that is an integer with
\* 0 < k < 10 and 1 when the count is absent, not a number, <= 0 or >= 10; the
\* number of challenges queued over all contexts grows by k and the response
\* advertises k challenges.
C17_ChallengeCount ==
    [][ ChallengeStep =>
          LET k == RequestedCount(creq)
          IN  /\ lastO'.op = "challenge" /\ lastO'.status = StatusUnauthorized
              /\ Len(lastO'.advertised) = k
              /\ Len(issued') = Len(issued) + k
              /\ TotalQueued(challenges') = TotalQueued(challenges) + k ]_vars

\* two requests asking for 9 challenges each were served
C17_Witness ==
    /\ nChal = 2 /\ creq.hdrCount = "9"
    /\ lastO.status = StatusUnauthorized /\ Len(lastO.advertised) = 9
    /\ TotalQueued(challenges) = 18

\* ------------------------------------------------ Origin, token type
\* the value names the Basic token type
SignalsBasic(value) == value = "2"

\* the advertised key is the Basic key exactly when the challenge is Basic
KeyFollowsType ==
    \A k \in 1..Len(lastO.advertised) :
        /\ lastO.advertised[k].tokenKey \in {basicTokenKeyEnc, rateLimitedTokenKeyEnc}
        /\ (lastO.advertised[k].tokenKey = basicTokenKeyEnc)
               <=> (lastO.advertised[k].challenge[1] = BasicPublicTokenType)

TypesIssued == { ch.TokenType : ch \in QueuedChallenges }

\* C18 as stated: an issued challenge is Basic whenever the token-type header
\* or the type query parameter signals Basic and Rate-Limited otherwise, and
\* the advertised key is the Basic key exactly when the challenge is Basic.
C18_TokenTypeAsStated ==
    /\ \A ch \in QueuedChallenges :
          ch.TokenType = (IF SignalsBasic(creq.hdrTokenType) \/ SignalsBasic(creq.qTokenType)
                          THEN BasicPublicTokenType ELSE RateLimitedTokenType)
    /\ KeyFollowsType

\* C18, amended: an issued challenge is Basic exactly when the token-type
\* header signals Basic, or the header is absent or not a number and the type
\* query parameter signals Basic; a header that is a number other than Basic
\* makes the challenge Rate-Limited whatever the query parameter says.  The
\* advertised key is the Basic key exactly when the challenge is Basic.
C18_TokenType ==
    /\ \A ch \in QueuedChallenges :
          ch.TokenType = (IF \/ SignalsBasic(creq.hdrTokenType)
                             \/ /\ creq.hdrTokenType \in {"", "x"}
                                /\ SignalsBasic(creq.qTokenType)
                          THEN BasicPublicTokenType ELSE RateLimitedTokenType)
    /\ KeyFollowsType

\* a challenge was issued for a request whose header says Rate-Limited and
\* whose query parameter says Basic
C18_Witness ==
    /\ nChal > 0
    /\ creq.hdrTokenType = "3" /\ creq.qTokenType = "2"
    /\ TypesIssued = {RateLimitedTokenType}
    /\ \A k \in 1..Len(lastO.advertised) :
          lastO.advertised[k].tokenKey = rateLimitedTokenKeyEnc

\* ------------------------------------------------ Attester, forwarding
\* C19: every request handled by the Attester causes at most one call of the
\* Issuer; a request whose forward fails is answered 400 after that one call,
\* and no request is forwarded a second time by a later step of its handling.
C19_SingleForward ==
    /\ [](nForwards <= nReq)
    /\ [][ AttesterStep =>
             /\ nForwards' = nForwards + last'.forwards
             /\ last'.forwards \in {0, 1}
             /\ last'.fault = "forward" =>
                    /\ last'.forwards = 1
                    /\ last'.status = StatusBadRequest
                    /\ ~last'.wrote ]_vars

\* a rate-limited request whose forward failed, after a request that was
\* forwarded and answered
C19_Witness ==
    /\ last.kind = "ratelimited" /\ last.fault = "forward"
    /\ last.status = StatusBadRequest
    /\ nReq = 2 /\ nForwards = 2

\* no handler is between its first and its last step
OriAllFinished == \A p \in Procs : ori[p].pc \in {"idle", "done"}

\* C20: when challenge issuances and redemptions that ran concurrently have
\* all finished (no handler panicked, the process is alive), the queue of every
\* context holds (number issued) - (number popped) challenges and every
\* issued challenge that no redemption took is queued under its context.
C20_ConcurrentIssuance ==
    (OriAllFinished /\ ~crashed /\ \A p \in Procs : ~ori[p].panicked) =>
        /\ \A c \in IssuedContexts \cup DOMAIN challenges :
               QLen(challenges, c) = IssuedCount(c) - MatchedCount(c)
        /\ \A s \in (1..Len(issued)) \ ConsumedSerials :
               s \in QueuedSerials(challenges, issued[s])

\* ------------------------------------------------ Attester, quota over time
\* the count the handler compares with the limit when client c asks for
\* origin o with index i
ComparedCount(cs, hp, c, o, i) == CountOf(cs, hp, c, CountKey(o, i))

\* C21: under a constant limit, once a matching-index request for a pair was
\* answered 429, every later matching-index request for that pair is answered
\* 429 too; a rejected request still adds one to the count compared with the
\* limit, and no stored count is ever removed, reset or decremented.
C21_QuotaSticky ==
    /\ [](\A p \in DOMAIN hist :
            \A j, k \in 1..Len(hist[p]) :
                (/\ j < k
                 /\ hist[p][j].indexEnc = hist[p][1].indexEnc
                 /\ hist[p][k].indexEnc = hist[p][1].indexEnc
                 /\ hist[p][j].tokenLimit = hist[p][k].tokenLimit
                 /\ hist[p][j].status = StatusTooManyRequests)
                    => hist[p][k].status = StatusTooManyRequests)
    /\ [][ (QuotaStep /\ PairKnown /\ IndexMatches
                /\ last'.status = StatusTooManyRequests) =>
             ComparedCount(clientState', heap', last'.clientID,
                           last'.anonOriginEnc, last'.indexEnc)
               = ComparedCount(clientState, heap, last'.clientID,
                               last'.anonOriginEnc, last'.indexEnc) + 1 ]_vars
    /\ [][ \A c \in DOMAIN clientState :
             \A key \in DOMAIN StateOf(clientState, heap, c).originCounts :
                 /\ Has(StateOf(clientState', heap', c).originCounts, key)
                 /\ StateOf(clientState', heap', c).originCounts[key]
                        >= StateOf(clientState, heap, c).originCounts[key] ]_vars

\* ------------------------------------------------ Attester, recorded indices
\* C22: the index recorded for a (client, origin) pair is never overwritten or
\* deleted by a later request, and a request for a known pair that derives a
\* different index leaves the recorded indices and the issuance counts of its
\* client, and the states of the other clients, as they were.
C22_WriteOnce ==
    /\ [][ \A c \in DOMAIN clientState :
             \A o \in DOMAIN StateOf(clientState, heap, c).originIndices :
                 /\ Has(clientState', c)
                 /\ Has(StateOf(clientState', heap', c).originIndices, o)
                 /\ StateOf(clientState', heap', c).originIndices[o]
                        = StateOf(clientState, heap, c).originIndices[o] ]_vars
    /\ [][ (QuotaStep /\ PairKnown /\ ~IndexMatches) =>
             /\ DOMAIN clientState' = DOMAIN clientState
             /\ \A c \in DOMAIN clientState :
                    StateOf(clientState', heap', c) = StateOf(clientState, heap, c) ]_vars

\* a pair that was counted twice under its recorded index has just been asked
\* for with another index
C22_Witness ==
    /\ last.kind = "ratelimited" /\ last.fault = "none"
    /\ Len(hist[<< last.clientID, last.anonOriginEnc >>]) = 3
    /\ hist[<< last.clientID, last.anonOriginEnc >>][2].indexEnc
           = hist[<< last.clientID, last.anonOriginEnc >>][1].indexEnc
    /\ last.indexEnc # hist[<< last.clientID, last.anonOriginEnc >>][1].indexEnc
    /\ StateOf(clientState, heap, last.clientID).originIndices[last.anonOriginEnc]
           = hist[<< last.clientID, last.anonOriginEnc >>][1].indexEnc

====
